---- MODULE Spec2Model ----
(***************************************************************************)
(* MediTrack: appointment lifecycle and booking engine.                    *)
(*                                                                         *)
(* The program is a set of React components that share one Firestore       *)
(* collection, "appointments".  Each mounted component (a "session": one   *)
(* browser tab of one signed-in user) keeps local state that is fed by an  *)
(* onSnapshot listener and acts on the collection through addDoc and       *)
(* updateDoc.  A handler reads the session's LOCAL state (the last         *)
(* snapshot delivered to it) and then writes to the shared collection; the *)
(* snapshot of a write reaches the other sessions in a later step.         *)
(*                                                                         *)
(*   BookAppointment   (src/unnamed/part_000, lines 351-621)               *)
(*   PatientDashboard  (src/unnamed/part_000, lines 1-350)                 *)
(*   DoctorDashboard   (src/project/src/pages/DoctorDashboard.tsx)         *)
(*                                                                         *)
(* Left out as presentation state: the success banners and the loading     *)
(* flags (they are never read by a guard that a handler does not repeat),  *)
(* the denormalised display names and createdAt.                           *)
(***************************************************************************)
EXTENDS Integers, Sequences, FiniteSets, TLC

VARIABLES
    appts,              \* the "appointments" collection: document id i is appts[i]
    todayAppointments,  \* BookAppointment: per session, the count last delivered
    bookError,          \* BookAppointment: per session, the error banner
    appointments,       \* Doctor/PatientDashboard: per session, the sorted list last delivered
    selectedAppointment,\* DoctorDashboard: per session, the id whose prescription form is open
    prescriptionData,   \* DoctorDashboard: per session, the prescription draft
    error,              \* DoctorDashboard: per session, the error banner
    feedbackData,       \* PatientDashboard: per session, the feedback drafts by appointment id
    accounts,           \* Firebase Auth: the emails that have an account
    users,              \* the "users" collection: the profile document of each uid
    authUser,           \* Firebase Auth: auth.currentUser of the browser
    authEvents,         \* onAuthStateChanged callbacks queued, oldest first
    fetches,            \* AuthProvider: the uids whose fetchUserProfile awaits getDoc
    registerCall,       \* AuthProvider: the position of the call of register
    logoutCall,         \* AuthProvider: the position of the call of logout
    currentUser,        \* AuthProvider: useState currentUser
    userProfile,        \* AuthProvider: useState userProfile
    loading             \* AuthProvider: useState loading

\* the state of the AuthProvider and of the services it talks to
authVars == <<accounts, users, authUser, authEvents, fetches, registerCall,
              logoutCall, currentUser, userProfile, loading>>

\* the state of the dashboards, the booking page and the appointments collection
appVars == <<appts, todayAppointments, bookError, appointments, selectedAppointment,
             prescriptionData, error, feedbackData>>

vars == <<appVars, authVars>>

-----------------------------------------------------------------------------
(* Bounds of the model *)

\* records the workflow specification lets the store hold
MaxAppts == 1
\* records the booking specification lets the store hold
MaxBooked == 3
\* records the two-doctor specification lets the store hold
MaxPair == 2
\* records the form specification lets the store hold
MaxForm == 3
\* records the prescription specification lets the store hold
MaxRx == 1
\* records the two-patient specification lets the store hold
MaxOwner == 2
\* records the rating specification lets the store hold
MaxRated == 3
\* records the list specification lets the store hold
MaxSort == 2
\* records the live specification lets the store hold
MaxLive == 2
\* records the draft specification lets the store hold
MaxDraft == 2

-----------------------------------------------------------------------------
(* Identities and sessions *)

\* users whose profile has role "patient" / role "doctor"
Patients == {"p1", "p2"}
Doctors == {"d1", "d2"}

\* mounted components; each belongs to one signed-in user
BookSessions == {"b1", "b2", "b3"}
DoctorSessions == {"dA", "dB", "dC"}
PatientSessions == {"qA", "qB", "qS"}

\* userProfile.uid of the session
uid(s) ==
    CASE s = "b1" -> "p1" [] s = "b2" -> "p1" [] s = "b3" -> "p2"
      [] s = "dA" -> "d1" [] s = "dB" -> "d1" [] s = "dC" -> "d2"
      [] s = "qA" -> "p1" [] s = "qB" -> "p2" [] s = "qS" -> "p1"

-----------------------------------------------------------------------------
(* Values *)

\* JavaScript undefined: an absent optional field of a document
Undefined == [undefined |-> TRUE]

\* useState<string | null>(null): no appointment selected (document ids start at 1)
Null == 0

Statuses == {"pending", "confirmed", "in-progress", "completed", "cancelled"}

\* the value '' of an unfilled <input type="date">; a date is a day number,
\* and comparing two 'YYYY-MM-DD' strings compares their day numbers
NoDate == 0

\* const today = new Date().toISOString().split('T')[0]; the model keeps the
\* clock on one day
today == 2

\* new Date() is the caller's clock and toISOString() renders it in UTC: while
\* the UTC day is today, the caller's own calendar day is the same day, the
\* day before (a zone west of Greenwich, in its evening) or the day after (a
\* zone east of Greenwich, after its midnight)
LocalDates == {today - 1, today, today + 1}

\* const timeSlots
timeSlots ==
    <<"09:00", "09:30", "10:00", "10:30", "11:00", "11:30",
      "14:00", "14:30", "15:00", "15:30", "16:00", "16:30">>

\* a text is a sequence of tokens; the token " " is white space
RECURSIVE TrimLeft(_)
TrimLeft(t) ==
    IF t # <<>> /\ Head(t) = " " THEN TrimLeft(Tail(t)) ELSE t

RECURSIVE TrimRight(_)
TrimRight(t) ==
    IF t # <<>> /\ t[Len(t)] = " " THEN TrimRight(SubSeq(t, 1, Len(t) - 1)) ELSE t

\* String.prototype.trim
Trim(t) == TrimRight(TrimLeft(t))

\* the error banners of BookAppointment
ErrDailyLimit == "You can only book a maximum of 2 appointments per day."
ErrRequired == "Please fill in all required fields."
ErrPastDate == "Please select a future date."
ErrBookFailed == "Failed to book appointment. Please try again."

\* the error banners of DoctorDashboard
ErrMedicine == "Please enter medicine name"
ErrStatusFailed == "Failed to update appointment status"
ErrPrescriptionFailed == "Failed to add prescription"

\* useState({medicine: '', dosage: '', frequency: '', instructions: ''}); the
\* three optional fields are carried like medicine and are not modelled
EmptyPrescription == [medicine |-> <<>>]

-----------------------------------------------------------------------------
(* The store *)

Ids == 1..Len(appts)

\* { id: doc.id, ...doc.data() }
Doc(i) ==
    [id |-> i, patientId |-> appts[i].patientId, doctorId |-> appts[i].doctorId,
     date |-> appts[i].date, time |-> appts[i].time, note |-> appts[i].note,
     status |-> appts[i].status, prescription |-> appts[i].prescription,
     feedback |-> appts[i].feedback]

\* minutes since midnight of an 'HH:MM' slot
Minutes(t) ==
    CASE t = "09:00" -> 540 [] t = "09:30" -> 570 [] t = "10:00" -> 600
      [] t = "10:30" -> 630 [] t = "11:00" -> 660 [] t = "11:30" -> 690
      [] t = "14:00" -> 840 [] t = "14:30" -> 870 [] t = "15:00" -> 900
      [] t = "15:30" -> 930 [] t = "16:00" -> 960 [] t = "16:30" -> 990

\* new Date(`${a.date} ${a.time}`).getTime(), in minutes
GetTime(d) == d.date * 1440 + Minutes(d.time)

\* the place where Array.prototype.sort (stable) with the comparator
\* dateB.getTime() - dateA.getTime() puts d in an already sorted list
RECURSIVE InsertDesc(_, _)
InsertDesc(d, list) ==
    IF list = <<>> THEN <<d>>
    ELSE IF GetTime(Head(list)) >= GetTime(d)
         THEN <<Head(list)>> \o InsertDesc(d, Tail(list))
         ELSE <<d>> \o list

\* appointmentData.sort((a, b) => dateB.getTime() - dateA.getTime())
RECURSIVE SortDesc(_)
SortDesc(list) ==
    IF list = <<>> THEN <<>>
    ELSE InsertDesc(list[Len(list)], SortDesc(SubSeq(list, 1, Len(list) - 1)))

\* `${a.date} ${a.time}` ('YYYY-MM-DD HH:MM') is not in the ECMAScript date-time
\* format, so what Date.parse makes of it is left to the engine: it either
\* reads the string as a local time or yields an invalid date, whose
\* getTime() is NaN
Engines == {"reads", "invalid"}

\* the engine a session's browser runs
Engine(s) == IF s = "qS" THEN "invalid" ELSE "reads"

\* appointmentData.sort(comparator) on an engine: a comparator value of NaN
\* counts as +0, so the stable sort leaves the list in document order
SortOn(engine, list) == IF engine = "reads" THEN SortDesc(list) ELSE list

\* the documents of a query snapshot, in document order
RECURSIVE DocsUpTo(_, _)
DocsUpTo(n, field) ==
    IF n = 0 THEN <<>>
    ELSE DocsUpTo(n - 1, field)
         \o (IF Doc(n)[field.name] = field.value THEN <<Doc(n)>> ELSE <<>>)

\* query(collection(db, 'appointments'), where(name, '==', value))
QueryDocs(name, value) == DocsUpTo(Len(appts), [name |-> name, value |-> value])

\* snapshot.size of the query where patientId == uid and date == today
TodayCount(patient) ==
    Cardinality({i \in Ids : appts[i].patientId = patient /\ appts[i].date = today})

\* the number of records the store holds for (patient, date)
CountFor(patient, date) ==
    Cardinality({i \in Ids : appts[i].patientId = patient /\ appts[i].date = date})

-----------------------------------------------------------------------------
(* What a session sees *)

\* the session's list holds a document with this id
Listed(s, i) == \E k \in DOMAIN appointments[s] : appointments[s][k].id = i

\* that document, as last delivered to the session
Seen(s, i) ==
    appointments[s][CHOOSE k \in DOMAIN appointments[s] : appointments[s][k].id = i]

ListedIds(s) == {appointments[s][k].id : k \in DOMAIN appointments[s]}

-----------------------------------------------------------------------------
(* AuthProvider (src/project/src/contexts/AuthContext.tsx) and ProtectedRoute *)
(* (src/project/README.md, lines 211-234).  An email is a sequence of parts,  *)
(* the last of which is its domain with the "@"; the uid of an account is    *)
(* modelled by its email, one account per email.  An async function runs     *)
(* from one await to the next in one step.                                   *)

\* the callbacks of onAuthStateChanged the model lets wait in the queue
MaxEvents == 2

\* what is typed into the email field of the register and login pages
EmailInputs ==
    {<<"dee", "@meditrack.local">>, <<"pat", "@meditrack.local">>,
     <<"pat", "@gmail.com">>, <<"pat", "@meditrack.local", ".example.com">>}

\* role: 'doctor' | 'patient'
Roles == {"doctor", "patient"}

\* User | null: no user
NoUser == <<>>

\* UserProfile | null: no profile
NoProfile == [null |-> TRUE]

\* a document snapshot whose exists() is false
NoDoc == [exists |-> FALSE]

\* requiredRole left out, and the value of userProfile?.role without a profile
NoRole == "undefined"

\* throw new Error('Email must end with @meditrack.local')
ErrEmail == "Email must end with @meditrack.local"
\* the rejection of createUserWithEmailAndPassword, passed on to the caller
ErrCreate == "auth/createUserWithEmailAndPassword rejected"
\* the rejection of setDoc, passed on to the caller
ErrWrite == "firestore/setDoc rejected"

\* no call of register has been made
NoCall == [pc |-> "idle", email |-> NoUser, role |-> NoRole, error |-> ""]

\* String.prototype.endsWith
EndsWith(str, suffix) ==
    /\ Len(str) >= Len(suffix)
    /\ SubSeq(str, Len(str) - Len(suffix) + 1, Len(str)) = suffix

\* the test as it would be with includes() in place of endsWith()
validateEmailIncludes(email) ==
    \E k \in 1..Len(email) : email[k] = "@meditrack.local"

\* validateEmail: email.endsWith('@meditrack.local')
validateEmail(email) == EndsWith(email, <<"@meditrack.local">>)

\* the profile object register builds: uid, role (names and createdAt left out)
NewProfile(user, role) == [uid |-> user, role |-> role]

\* setDoc(doc(db, 'users', uid), profile)
SetDoc(user, profile) == [users EXCEPT ![user] = profile]

\* Firebase Auth makes user the signed-in user and queues a callback of
\* onAuthStateChanged if that changes who is signed in
SignedInAs(user) ==
    /\ authUser' = user
    /\ authEvents' = IF user = authUser THEN authEvents ELSE Append(authEvents, user)

\* userProfile?.role
ProfileRole(profile) == IF profile = NoProfile THEN NoRole ELSE profile.role

\* useState initial values, and the subscription of the effect: the listener
\* is first called with the user Firebase Auth holds (none on a first visit)
InitAuth ==
    /\ accounts = {}
    /\ users = [u \in EmailInputs |-> NoDoc]
    /\ authUser = NoUser
    /\ authEvents = <<NoUser>>
    /\ fetches = {}
    /\ registerCall = NoCall
    /\ logoutCall = "idle"
    /\ currentUser = NoUser
    /\ userProfile = NoProfile
    /\ loading = TRUE

\* register, up to its first await: the validation, then the request to create
\* the account.  The pages are rendered only when loading is false.
Register(email, role) ==
    /\ ~loading
    /\ registerCall.pc \in {"idle", "returned", "thrown"}
    /\ registerCall' =
           IF ~validateEmail(email)
           THEN [pc |-> "thrown", email |-> email, role |-> role, error |-> ErrEmail]
           ELSE [pc |-> "creating", email |-> email, role |-> role, error |-> ""]
    /\ UNCHANGED <<accounts, users, authUser, authEvents, fetches, logoutCall,
                   currentUser, userProfile, loading>>
    /\ UNCHANGED appVars

\* register, from the answer of createUserWithEmailAndPassword to the second
\* await: a new account is created and signed in, or the call throws
RegisterCreated(created) ==
    /\ registerCall.pc = "creating"
    /\ IF created /\ registerCall.email \notin accounts
       THEN /\ Len(authEvents) < MaxEvents
            /\ accounts' = accounts \cup {registerCall.email}
            /\ SignedInAs(registerCall.email)
            /\ registerCall' = [registerCall EXCEPT !.pc = "writing"]
       ELSE /\ registerCall' = [registerCall EXCEPT !.pc = "thrown", !.error = ErrCreate]
            /\ UNCHANGED <<accounts, authUser, authEvents>>
    /\ UNCHANGED <<users, fetches, logoutCall, currentUser, userProfile, loading>>
    /\ UNCHANGED appVars

\* register, from the answer of setDoc to its end: setUserProfile(profile), or
\* the call throws
RegisterWritten(committed) ==
    /\ registerCall.pc = "writing"
    /\ IF committed
       THEN /\ users' = SetDoc(registerCall.email,
                               NewProfile(registerCall.email, registerCall.role))
            /\ userProfile' = NewProfile(registerCall.email, registerCall.role)
            /\ registerCall' = [registerCall EXCEPT !.pc = "returned"]
       ELSE /\ registerCall' = [registerCall EXCEPT !.pc = "thrown", !.error = ErrWrite]
            /\ UNCHANGED <<users, userProfile>>
    /\ UNCHANGED <<accounts, authUser, authEvents, fetches, logoutCall,
                   currentUser, loading>>
    /\ UNCHANGED appVars

\* login: signInWithEmailAndPassword signs the account in, or throws to the
\* caller and changes nothing
Login(email, accepted) ==
    /\ ~loading
    /\ IF accepted /\ email \in accounts
       THEN /\ Len(authEvents) < MaxEvents
            /\ SignedInAs(email)
       ELSE UNCHANGED <<authUser, authEvents>>
    /\ UNCHANGED <<accounts, users, fetches, registerCall, logoutCall,
                   currentUser, userProfile, loading>>
    /\ UNCHANGED appVars

\* logout, up to the answer of signOut; called from the Log out button of the
\* Navbar, which is rendered only with a currentUser
Logout(accepted) ==
    /\ ~loading
    /\ currentUser # NoUser
    /\ logoutCall = "idle"
    /\ IF accepted
       THEN /\ Len(authEvents) < MaxEvents
            /\ SignedInAs(NoUser)
            /\ logoutCall' = "signedOut"
       ELSE UNCHANGED <<authUser, authEvents, logoutCall>>
    /\ UNCHANGED <<accounts, users, fetches, registerCall, currentUser,
                   userProfile, loading>>
    /\ UNCHANGED appVars

\* logout, after the await: setUserProfile(null)
LogoutReturns ==
    /\ logoutCall = "signedOut"
    /\ logoutCall' = "idle"
    /\ userProfile' = NoProfile
    /\ UNCHANGED <<accounts, users, authUser, authEvents, fetches, registerCall,
                   currentUser, loading>>
    /\ UNCHANGED appVars

\* the callback of onAuthStateChanged, up to its await: setCurrentUser(user),
\* then either the call of fetchUserProfile or setUserProfile(null) and
\* setLoading(false)
AuthStateChanged ==
    /\ authEvents # <<>>
    /\ authEvents' = Tail(authEvents)
    /\ currentUser' = Head(authEvents)
    /\ IF Head(authEvents) # NoUser
       THEN /\ fetches' = fetches \cup {Head(authEvents)}
            /\ UNCHANGED <<userProfile, loading>>
       ELSE /\ userProfile' = NoProfile
            /\ loading' = FALSE
            /\ UNCHANGED fetches
    /\ UNCHANGED <<accounts, users, authUser, registerCall, logoutCall>>
    /\ UNCHANGED appVars

\* fetchUserProfile, from the answer of getDoc, and the rest of the callback:
\* setUserProfile(data) if the document exists, then setLoading(false); a
\* rejected getDoc ends the callback there
FetchAnswered(user, answered) ==
    /\ user \in fetches
    /\ fetches' = fetches \ {user}
    /\ IF answered
       THEN /\ userProfile' = IF users[user] # NoDoc THEN users[user] ELSE userProfile
            /\ loading' = FALSE
       ELSE UNCHANGED <<userProfile, loading>>
    /\ UNCHANGED <<accounts, users, authUser, authEvents, registerCall, logoutCall,
                   currentUser>>
    /\ UNCHANGED appVars

\* the page is loaded again: the provider is mounted anew, what was awaited
\* is gone with the old page, and the listener is first called with the user
\* Firebase Auth persisted
Reload ==
    /\ authEvents' = <<authUser>>
    /\ fetches' = {}
    /\ registerCall' = NoCall
    /\ logoutCall' = "idle"
    /\ currentUser' = NoUser
    /\ userProfile' = NoProfile
    /\ loading' = TRUE
    /\ UNCHANGED <<accounts, users, authUser>>
    /\ UNCHANGED appVars

\* what ProtectedRoute returns: its children or the target of a <Navigate>
ProtectedRoute(requiredRole) ==
    IF currentUser = NoUser
    THEN "/login"
    ELSE IF requiredRole # NoRole /\ ProfileRole(userProfile) # requiredRole
    THEN IF ProfileRole(userProfile) = "doctor"
         THEN "/doctor-dashboard"
         ELSE "/patient-dashboard"
    ELSE "children"

\* {!loading && children}: what the provider lets a route element put on screen
Rendered(requiredRole) ==
    IF loading THEN "nothing" ELSE ProtectedRoute(requiredRole)

-----------------------------------------------------------------------------
Init ==
    /\ appts = <<>>
    /\ todayAppointments = [s \in BookSessions |-> 0]
    /\ bookError = [s \in BookSessions |-> ""]
    /\ appointments = [s \in DoctorSessions \cup PatientSessions |-> <<>>]
    /\ selectedAppointment = [s \in DoctorSessions |-> Null]
    /\ prescriptionData = [s \in DoctorSessions |-> EmptyPrescription]
    /\ error = [s \in DoctorSessions |-> ""]
    /\ feedbackData = [s \in PatientSessions |-> <<>>]
    /\ InitAuth

-----------------------------------------------------------------------------
(* BookAppointment *)

\* onSnapshot(q, snapshot => setTodayAppointments(snapshot.size)): the listener
\* of the query patientId == uid, date == today delivers the current size
CountSnapshot(s) ==
    /\ todayAppointments[s] # TodayCount(uid(s))
    /\ todayAppointments' = [todayAppointments EXCEPT ![s] = TodayCount(uid(s))]
    /\ UNCHANGED authVars
    /\ UNCHANGED <<appts, bookError, appointments, selectedAppointment,
                   prescriptionData, error, feedbackData>>

\* the document with the note as typed, without trim()
NewAppointmentUntrimmed(s, selectedDoctor, date, time, note) ==
    [patientId |-> uid(s), doctorId |-> selectedDoctor, date |-> date,
     time |-> time, note |-> note, status |-> "pending",
     prescription |-> Undefined, feedback |-> Undefined]

\* the document handleSubmit hands to addDoc
NewAppointment(s, selectedDoctor, date, time, note) ==
    [patientId |-> uid(s), doctorId |-> selectedDoctor, date |-> date,
     time |-> time, note |-> Trim(note), status |-> "pending",
     prescription |-> Undefined, feedback |-> Undefined]

\* handleSubmit as it would be with the count read from the store inside the
\* write (a transactional cap check) instead of from the last delivered count
HandleSubmitCountsStore(s, selectedDoctor, date, time, note, committed) ==
    /\ IF TodayCount(uid(s)) >= 2
       THEN /\ bookError' = [bookError EXCEPT ![s] = ErrDailyLimit]
            /\ UNCHANGED appts
       ELSE IF selectedDoctor = "" \/ date = NoDate \/ time = ""
       THEN /\ bookError' = [bookError EXCEPT ![s] = ErrRequired]
            /\ UNCHANGED appts
       ELSE IF date < today
       THEN /\ bookError' = [bookError EXCEPT ![s] = ErrPastDate]
            /\ UNCHANGED appts
       ELSE IF selectedDoctor \in Doctors /\ committed
       THEN /\ appts' = Append(appts, NewAppointment(s, selectedDoctor, date, time, note))
            /\ bookError' = [bookError EXCEPT ![s] = ""]
       ELSE /\ bookError' = [bookError EXCEPT ![s] = ErrBookFailed]
            /\ UNCHANGED appts
    /\ UNCHANGED authVars
    /\ UNCHANGED <<todayAppointments, appointments, selectedAppointment,
                   prescriptionData, error, feedbackData>>

\* handleSubmit as it would be without the test of selectedDoctor
HandleSubmitAnyDoctor(s, selectedDoctor, date, time, note, committed) ==
    /\ IF todayAppointments[s] >= 2
       THEN /\ bookError' = [bookError EXCEPT ![s] = ErrDailyLimit]
            /\ UNCHANGED appts
       ELSE IF date = NoDate \/ time = ""
       THEN /\ bookError' = [bookError EXCEPT ![s] = ErrRequired]
            /\ UNCHANGED appts
       ELSE IF date < today
       THEN /\ bookError' = [bookError EXCEPT ![s] = ErrPastDate]
            /\ UNCHANGED appts
       ELSE IF committed
       THEN /\ appts' = Append(appts, NewAppointment(s, selectedDoctor, date, time, note))
            /\ bookError' = [bookError EXCEPT ![s] = ""]
       ELSE /\ bookError' = [bookError EXCEPT ![s] = ErrBookFailed]
            /\ UNCHANGED appts
    /\ UNCHANGED authVars
    /\ UNCHANGED <<todayAppointments, appointments, selectedAppointment,
                   prescriptionData, error, feedbackData>>

\* handleSubmit as it would be without the test of time
HandleSubmitAnyTime(s, selectedDoctor, date, time, note, committed) ==
    /\ IF todayAppointments[s] >= 2
       THEN /\ bookError' = [bookError EXCEPT ![s] = ErrDailyLimit]
            /\ UNCHANGED appts
       ELSE IF selectedDoctor = "" \/ date = NoDate
       THEN /\ bookError' = [bookError EXCEPT ![s] = ErrRequired]
            /\ UNCHANGED appts
       ELSE IF date < today
       THEN /\ bookError' = [bookError EXCEPT ![s] = ErrPastDate]
            /\ UNCHANGED appts
       ELSE IF selectedDoctor \in Doctors /\ committed
       THEN /\ appts' = Append(appts, NewAppointment(s, selectedDoctor, date, time, note))
            /\ bookError' = [bookError EXCEPT ![s] = ""]
       ELSE /\ bookError' = [bookError EXCEPT ![s] = ErrBookFailed]
            /\ UNCHANGED appts
    /\ UNCHANGED authVars
    /\ UNCHANGED <<todayAppointments, appointments, selectedAppointment,
                   prescriptionData, error, feedbackData>>

\* handleSubmit as it would be with the daily limit checked after the required
\* fields and the date
HandleSubmitCapLast(s, selectedDoctor, date, time, note, committed) ==
    /\ IF selectedDoctor = "" \/ date = NoDate \/ time = ""
       THEN /\ bookError' = [bookError EXCEPT ![s] = ErrRequired]
            /\ UNCHANGED appts
       ELSE IF date < today
       THEN /\ bookError' = [bookError EXCEPT ![s] = ErrPastDate]
            /\ UNCHANGED appts
       ELSE IF todayAppointments[s] >= 2
       THEN /\ bookError' = [bookError EXCEPT ![s] = ErrDailyLimit]
            /\ UNCHANGED appts
       ELSE IF selectedDoctor \in Doctors /\ committed
       THEN /\ appts' = Append(appts, NewAppointment(s, selectedDoctor, date, time, note))
            /\ bookError' = [bookError EXCEPT ![s] = ""]
       ELSE /\ bookError' = [bookError EXCEPT ![s] = ErrBookFailed]
            /\ UNCHANGED appts
    /\ UNCHANGED authVars
    /\ UNCHANGED <<todayAppointments, appointments, selectedAppointment,
                   prescriptionData, error, feedbackData>>

\* handleSubmit, with the form holding (selectedDoctor, date, time, note);
\* committed says whether addDoc resolves or rejects.  doctors.find(...) yields
\* undefined for an id that is no doctor, and reading its firstName throws
\* inside the try block.
HandleSubmit(s, selectedDoctor, date, time, note, committed) ==
    /\ IF todayAppointments[s] >= 2
       THEN /\ bookError' = [bookError EXCEPT ![s] = ErrDailyLimit]
            /\ UNCHANGED appts
       ELSE IF selectedDoctor = "" \/ date = NoDate \/ time = ""
       THEN /\ bookError' = [bookError EXCEPT ![s] = ErrRequired]
            /\ UNCHANGED appts
       ELSE IF date < today
       THEN /\ bookError' = [bookError EXCEPT ![s] = ErrPastDate]
            /\ UNCHANGED appts
       ELSE IF selectedDoctor \in Doctors /\ committed
       THEN /\ appts' = Append(appts, NewAppointment(s, selectedDoctor, date, time, note))
            /\ bookError' = [bookError EXCEPT ![s] = ""]
       ELSE /\ bookError' = [bookError EXCEPT ![s] = ErrBookFailed]
            /\ UNCHANGED appts
    /\ UNCHANGED authVars
    /\ UNCHANGED <<todayAppointments, appointments, selectedAppointment,
                   prescriptionData, error, feedbackData>>

-----------------------------------------------------------------------------
(* DoctorDashboard *)

\* a listener on the whole collection, without the where clause
DoctorSnapshotUnfiltered(s) ==
    /\ appointments[s] # SortOn(Engine(s), [k \in Ids |-> Doc(k)])
    /\ appointments' = [appointments EXCEPT ![s] = SortOn(Engine(s), [k \in Ids |-> Doc(k)])]
    /\ UNCHANGED authVars
    /\ UNCHANGED <<appts, todayAppointments, bookError, selectedAppointment,
                   prescriptionData, error, feedbackData>>

\* onSnapshot of the query doctorId == uid: the sorted documents replace the list
DoctorSnapshot(s) ==
    /\ appointments[s] # SortOn(Engine(s), QueryDocs("doctorId", uid(s)))
    /\ appointments' = [appointments EXCEPT ![s] = SortOn(Engine(s), QueryDocs("doctorId", uid(s)))]
    /\ UNCHANGED authVars
    /\ UNCHANGED <<appts, todayAppointments, bookError, selectedAppointment,
                   prescriptionData, error, feedbackData>>

\* a write of the named fields to every document of the collection
UpdateDocAll(i, fields) ==
    [j \in DOMAIN appts |-> [f \in DOMAIN appts[j] |->
        IF f \in DOMAIN fields THEN fields[f] ELSE appts[j][f]]]

\* updateDoc(doc(db, 'appointments', id), fields): the named fields of that one
\* document are replaced, whatever the document holds
UpdateDoc(i, fields) ==
    [appts EXCEPT ![i] = [f \in DOMAIN appts[i] |->
        IF f \in DOMAIN fields THEN fields[f] ELSE appts[i][f]]]

\* updateAppointmentStatus(appointmentId, newStatus)
UpdateAppointmentStatus(s, i, newStatus, committed) ==
    /\ IF committed
       THEN /\ appts' = UpdateDoc(i, [status |-> newStatus])
            /\ UNCHANGED error
       ELSE /\ error' = [error EXCEPT ![s] = ErrStatusFailed]
            /\ UNCHANGED appts
    /\ UNCHANGED authVars
    /\ UNCHANGED <<todayAppointments, bookError, appointments, selectedAppointment,
                   prescriptionData, feedbackData>>

\* pendingAppointments / activeAppointments of the session's list
IsPending(s, i) == Listed(s, i) /\ Seen(s, i).status = "pending"
IsActive(s, i) == Listed(s, i) /\ Seen(s, i).status \in {"confirmed", "in-progress"}

\* the Accept button of a card in the pending list
Accept(s, i, committed) ==
    /\ IsPending(s, i)
    /\ UpdateAppointmentStatus(s, i, "confirmed", committed)

\* the Decline button of a card in the pending list
Decline(s, i, committed) ==
    /\ IsPending(s, i)
    /\ UpdateAppointmentStatus(s, i, "cancelled", committed)

\* the Start button as it would be with the status misspelt
StartMisspelt(s, i, committed) ==
    /\ IsActive(s, i)
    /\ Seen(s, i).status = "confirmed"
    /\ UpdateAppointmentStatus(s, i, "in_progress", committed)

\* the Start button, rendered on an active card whose status is confirmed
Start(s, i, committed) ==
    /\ IsActive(s, i)
    /\ Seen(s, i).status = "confirmed"
    /\ UpdateAppointmentStatus(s, i, "in-progress", committed)

\* the Add Prescription button, rendered on an active card whose status is
\* in-progress: setSelectedAppointment(appointment.id)
AddPrescription(s, i) ==
    /\ IsActive(s, i)
    /\ Seen(s, i).status = "in-progress"
    /\ selectedAppointment' = [selectedAppointment EXCEPT ![s] = i]
    /\ UNCHANGED authVars
    /\ UNCHANGED <<appts, todayAppointments, bookError, appointments,
                   prescriptionData, error, feedbackData>>

\* the prescription form is rendered inside the active card of the selected id
FormOpen(s, i) == IsActive(s, i) /\ selectedAppointment[s] = i

\* typing into the Medicine input of the open form
EditMedicine(s, i, text) ==
    /\ FormOpen(s, i)
    /\ prescriptionData' = [prescriptionData EXCEPT ![s].medicine = text]
    /\ UNCHANGED authVars
    /\ UNCHANGED <<appts, todayAppointments, bookError, appointments,
                   selectedAppointment, error, feedbackData>>

\* the Cancel button of the open form: setSelectedAppointment(null)
CancelForm(s, i) ==
    /\ FormOpen(s, i)
    /\ selectedAppointment' = [selectedAppointment EXCEPT ![s] = Null]
    /\ UNCHANGED authVars
    /\ UNCHANGED <<appts, todayAppointments, bookError, appointments,
                   prescriptionData, error, feedbackData>>

\* the handler with the test !prescriptionData.medicine, without trim()
HandlePrescriptionSubmitUntrimmed(s, i, committed) ==
    /\ FormOpen(s, i)
    /\ IF prescriptionData[s].medicine = <<>>
       THEN /\ error' = [error EXCEPT ![s] = ErrMedicine]
            /\ UNCHANGED <<appts, prescriptionData, selectedAppointment>>
       ELSE IF committed
       THEN /\ appts' = UpdateDoc(i, [status |-> "completed",
                                      prescription |-> prescriptionData[s]])
            /\ prescriptionData' = [prescriptionData EXCEPT ![s] = EmptyPrescription]
            /\ selectedAppointment' = [selectedAppointment EXCEPT ![s] = Null]
            /\ UNCHANGED error
       ELSE /\ error' = [error EXCEPT ![s] = ErrPrescriptionFailed]
            /\ UNCHANGED <<appts, prescriptionData, selectedAppointment>>
    /\ UNCHANGED authVars
    /\ UNCHANGED <<todayAppointments, bookError, appointments, feedbackData>>

\* handlePrescriptionSubmit(appointmentId), the Complete Appointment button of
\* the open form
HandlePrescriptionSubmit(s, i, committed) ==
    /\ FormOpen(s, i)
    /\ IF Trim(prescriptionData[s].medicine) = <<>>
       THEN /\ error' = [error EXCEPT ![s] = ErrMedicine]
            /\ UNCHANGED <<appts, prescriptionData, selectedAppointment>>
       ELSE IF committed
       THEN /\ appts' = UpdateDoc(i, [status |-> "completed",
                                      prescription |-> prescriptionData[s]])
            /\ prescriptionData' = [prescriptionData EXCEPT ![s] = EmptyPrescription]
            /\ selectedAppointment' = [selectedAppointment EXCEPT ![s] = Null]
            /\ UNCHANGED error
       ELSE /\ error' = [error EXCEPT ![s] = ErrPrescriptionFailed]
            /\ UNCHANGED <<appts, prescriptionData, selectedAppointment>>
    /\ UNCHANGED authVars
    /\ UNCHANGED <<todayAppointments, bookError, appointments, feedbackData>>

\* setTimeout(() => setError(''), 3000)
ErrorTimeout(s) ==
    /\ error[s] # ""
    /\ error' = [error EXCEPT ![s] = ""]
    /\ UNCHANGED authVars
    /\ UNCHANGED <<appts, todayAppointments, bookError, appointments,
                   selectedAppointment, prescriptionData, feedbackData>>

-----------------------------------------------------------------------------
(* PatientDashboard *)

\* a listener on the whole collection, without the where clause
PatientSnapshotUnfiltered(s) ==
    /\ appointments[s] # SortOn(Engine(s), [k \in Ids |-> Doc(k)])
    /\ appointments' = [appointments EXCEPT ![s] = SortOn(Engine(s), [k \in Ids |-> Doc(k)])]
    /\ UNCHANGED authVars
    /\ UNCHANGED <<appts, todayAppointments, bookError, selectedAppointment,
                   prescriptionData, error, feedbackData>>

\* a listener that is told of added documents only, not of modified ones
PatientSnapshotOnAdd(s) ==
    /\ Len(appointments[s]) # Len(QueryDocs("patientId", uid(s)))
    /\ appointments' = [appointments EXCEPT ![s] =
           SortOn(Engine(s), QueryDocs("patientId", uid(s)))]
    /\ UNCHANGED authVars
    /\ UNCHANGED <<appts, todayAppointments, bookError, selectedAppointment,
                   prescriptionData, error, feedbackData>>

\* onSnapshot of the query patientId == uid: the sorted documents replace the list
PatientSnapshot(s) ==
    /\ appointments[s] # SortOn(Engine(s), QueryDocs("patientId", uid(s)))
    /\ appointments' = [appointments EXCEPT ![s] =
           SortOn(Engine(s), QueryDocs("patientId", uid(s)))]
    /\ UNCHANGED authVars
    /\ UNCHANGED <<appts, todayAppointments, bookError, selectedAppointment,
                   prescriptionData, error, feedbackData>>

\* pastAppointments of the session's list
IsPast(s, i) == Listed(s, i) /\ Seen(s, i).status \in {"completed", "cancelled"}

\* the Prescription Details block as it would be without the status test
PrescriptionShownAnyStatus(s, i) ==
    /\ s \in PatientSessions
    /\ Listed(s, i)
    /\ Seen(s, i).prescription # Undefined

\* {appointment.prescription && appointment.status === 'completed' && ...}: the
\* Prescription Details block of a past card.  The doctor's dashboard renders
\* no prescription anywhere.
PrescriptionShown(s, i) ==
    /\ s \in PatientSessions
    /\ IsPast(s, i)
    /\ Seen(s, i).prescription # Undefined
    /\ Seen(s, i).status = "completed"

\* {appointment.status === 'completed' && !appointment.feedback && ...}: the
\* Rate Your Experience block of a past card
FeedbackFormShown(s, i) ==
    /\ IsPast(s, i)
    /\ Seen(s, i).status = "completed"
    /\ Seen(s, i).feedback = Undefined

\* one property definition of an object literal: a later definition of a key
\* replaces an earlier one
Define(obj, key, value) ==
    [k \in DOMAIN obj \cup {key} |-> IF k = key THEN value ELSE obj[k]]

\* prev[appointmentId]?.rating || 0
PrevRating(prev, i) ==
    IF i \in DOMAIN prev /\ prev[i].rating # 0 THEN prev[i].rating ELSE 0

\* prev[appointmentId]?.comment || ''
PrevComment(prev, i) ==
    IF i \in DOMAIN prev /\ prev[i].comment # <<>> THEN prev[i].comment ELSE <<>>

\* { ...prev[appointmentId], [field]: value,
\*   rating: prev[appointmentId]?.rating || 0,
\*   comment: prev[appointmentId]?.comment || '' }
DraftAfter(prev, i, field, value) ==
    Define(Define(Define(IF i \in DOMAIN prev THEN prev[i] ELSE <<>>,
                         field, value),
                  "rating", PrevRating(prev, i)),
           "comment", PrevComment(prev, i))

\* setFeedbackData(prev => ({ ...prev, [appointmentId]: { ... } }))
DraftsAfter(prev, i, field, value) ==
    Define(prev, i, DraftAfter(prev, i, field, value))

\* updateFeedback(appointmentId, field, value): a star button or the comment box
\* of the Rate Your Experience block
UpdateFeedback(s, i, field, value) ==
    /\ FeedbackFormShown(s, i)
    /\ feedbackData' = [feedbackData EXCEPT ![s] =
           DraftsAfter(feedbackData[s], i, field, value)]
    /\ UNCHANGED authVars
    /\ UNCHANGED <<appts, todayAppointments, bookError, appointments,
                   selectedAppointment, prescriptionData, error>>

\* delete newData[appointmentId]
Delete(obj, key) == [k \in DOMAIN obj \ {key} |-> obj[k]]

\* what PatientDashboard shows its user about a failed handler: the component
\* declares no error state and renders no banner, and its one catch block
\* writes to the console
PatientError(s) == ""

\* if (!feedback || feedback.rating === 0) return;
ReturnsEarly(drafts, i) == i \notin DOMAIN drafts \/ drafts[i].rating = 0

\* handleFeedbackSubmit(appointmentId): the Submit Feedback button of the Rate
\* Your Experience block.  An early return reports nothing, and a rejected
\* write is logged to the console only: the component has no error banner.
HandleFeedbackSubmit(s, i, committed) ==
    /\ FeedbackFormShown(s, i)
    /\ IF ReturnsEarly(feedbackData[s], i)
       THEN UNCHANGED <<appts, feedbackData>>
       ELSE IF committed
       THEN /\ appts' = UpdateDoc(i, [feedback |-> feedbackData[s][i]])
            /\ feedbackData' = [feedbackData EXCEPT ![s] = Delete(feedbackData[s], i)]
       ELSE UNCHANGED <<appts, feedbackData>>
    /\ UNCHANGED authVars
    /\ UNCHANGED <<todayAppointments, bookError, appointments, selectedAppointment,
                   prescriptionData, error>>

-----------------------------------------------------------------------------
(* The summary cards of the two dashboards *)

\* appointments.filter(apt => apt.status === 'pending')
pendingAppointments(s) ==
    SelectSeq(appointments[s], LAMBDA apt : apt.status = "pending")

\* the active filter as it would be with 'pending' in its list
activeAppointmentsWithPending(s) ==
    SelectSeq(appointments[s],
              LAMBDA apt : apt.status \in {"pending", "confirmed", "in-progress"})

\* appointments.filter(apt => ['confirmed', 'in-progress'].includes(apt.status))
activeAppointments(s) ==
    SelectSeq(appointments[s], LAMBDA apt : apt.status \in {"confirmed", "in-progress"})

\* appointments.filter(apt => apt.status === 'completed')
completedAppointments(s) ==
    SelectSeq(appointments[s], LAMBDA apt : apt.status = "completed")

\* appointments.filter(apt => ['pending', 'confirmed', 'in-progress'].includes(apt.status))
upcomingAppointments(s) ==
    SelectSeq(appointments[s],
              LAMBDA apt : apt.status \in {"pending", "confirmed", "in-progress"})

\* appointments.filter(apt => ['completed', 'cancelled'].includes(apt.status))
pastAppointments(s) ==
    SelectSeq(appointments[s], LAMBDA apt : apt.status \in {"completed", "cancelled"})

\* the Upcoming card: upcomingAppointments.length
UpcomingCard(s) == Len(upcomingAppointments(s))

\* the Prescriptions card: appointments.filter(apt => apt.prescription).length
PrescriptionsCard(s) ==
    Len(SelectSeq(appointments[s], LAMBDA apt : apt.prescription # Undefined))

\* the Completed Visits card: pastAppointments.length
CompletedVisitsCard(s) == Len(pastAppointments(s))

\* appointments.filter(apt => apt.feedback)
appointmentsWithFeedback(s) ==
    SelectSeq(appointments[s], LAMBDA apt : apt.feedback # Undefined)

\* list.reduce((sum, apt) => sum + apt.feedback!.rating, 0)
RECURSIVE ReduceRatings(_)
ReduceRatings(list) ==
    IF list = <<>> THEN 0
    ELSE ReduceRatings(SubSeq(list, 1, Len(list) - 1)) + list[Len(list)].feedback.rating

\* the greatest common divisor of two naturals that are not both 0
RECURSIVE Gcd(_, _)
Gcd(a, b) == IF b = 0 THEN a ELSE Gcd(b, a % b)

\* the number a / b (b > 0), kept exact as a fraction in lowest terms
Divide(a, b) == [num |-> a \div Gcd(a, b), den |-> b \div Gcd(a, b)]

\* the average as it would be over every listed record
averageRatingOverList(s) ==
    IF Len(appointmentsWithFeedback(s)) > 0
    THEN Divide(ReduceRatings(appointmentsWithFeedback(s)), Len(appointments[s]))
    ELSE Divide(0, 1)

\* const averageRating = appointmentsWithFeedback.length > 0 ? sum / length : 0
averageRating(s) ==
    IF Len(appointmentsWithFeedback(s)) > 0
    THEN Divide(ReduceRatings(appointmentsWithFeedback(s)),
                Len(appointmentsWithFeedback(s)))
    ELSE Divide(0, 1)

-----------------------------------------------------------------------------
(* Inputs *)

\* what a doctor types into the Medicine input
Medicines == {<<>>, <<" ">>, <<"Amoxicillin">>}

\* the star buttons [1, 2, 3, 4, 5]
Stars == {1, 2, 3, 4, 5}

\* what a patient types into the comment box
Comments == {<<"thanks">>}

-----------------------------------------------------------------------------------------------------------------------------------------------------
(* The workflow specification: two sessions of doctor d1 and one session of *)
(* patient p1 around the records p1 books with d1.  Every write commits.    *)

FlowDoctorSessions == {"dA", "dB"}
FlowPatientSessions == {"qA"}

Book ==
    /\ Len(appts) < MaxAppts
    /\ HandleSubmit("b1", "d1", today, "09:00", <<>>, TRUE)

DoctorNotified == \E s \in FlowDoctorSessions : DoctorSnapshot(s)

PatientNotified == \E s \in FlowPatientSessions : PatientSnapshot(s)

DoAccept == \E s \in FlowDoctorSessions, i \in Ids : Accept(s, i, TRUE)

DoDecline == \E s \in FlowDoctorSessions, i \in Ids : Decline(s, i, TRUE)

DoStart == \E s \in FlowDoctorSessions, i \in Ids : Start(s, i, TRUE)

DoAddPrescription == \E s \in FlowDoctorSessions, i \in Ids : AddPrescription(s, i)

DoEditMedicine ==
    \E s \in FlowDoctorSessions, i \in Ids, m \in Medicines : EditMedicine(s, i, m)

DoCancelForm == \E s \in FlowDoctorSessions, i \in Ids : CancelForm(s, i)

DoComplete ==
    \E s \in FlowDoctorSessions, i \in Ids : HandlePrescriptionSubmit(s, i, TRUE)

DoErrorTimeout == \E s \in FlowDoctorSessions : ErrorTimeout(s)

DoRate ==
    \E s \in FlowPatientSessions, i \in Ids, n \in Stars :
        UpdateFeedback(s, i, "rating", n)

DoComment ==
    \E s \in FlowPatientSessions, i \in Ids, c \in Comments :
        UpdateFeedback(s, i, "comment", c)

DoSubmitFeedback ==
    \E s \in FlowPatientSessions, i \in Ids : HandleFeedbackSubmit(s, i, TRUE)

Next ==
    \/ Book
    \/ DoctorNotified
    \/ PatientNotified
    \/ DoAccept
    \/ DoDecline
    \/ DoStart
    \/ DoAddPrescription
    \/ DoEditMedicine
    \/ DoCancelForm
    \/ DoComplete
    \/ DoErrorTimeout
    \/ DoRate
    \/ DoComment
    \/ DoSubmitFeedback

Spec == Init /\ [][Next]_vars

-----------------------------------------------------------------------------
(* The booking specification: the booking pages of patient p1 (two sessions) *)
(* and of patient p2 (one session); an addDoc may be rejected by the store   *)

\* the options of the doctor <select>: '' and the fetched doctors
DoctorOptions == {"", "d1"}

\* the values of the date input: '', a past day, today, a later day
DateInputs == {NoDate, today - 1, today, today + 1}

\* the options of the time <select>: '' and the slots
TimeOptions == {"", "09:00"}

BookAny ==
    /\ Len(appts) < MaxBooked
    /\ \E s \in BookSessions, d \in DoctorOptions, date \in DateInputs,
          t \in TimeOptions, c \in BOOLEAN :
           HandleSubmit(s, d, date, t, <<>>, c)

CountNotified == \E s \in BookSessions : CountSnapshot(s)

NextBook ==
    \/ BookAny
    \/ CountNotified

SpecBook == Init /\ [][NextBook]_vars

-----------------------------------------------------------------------------
(* The form specification: one booking page of patient p1 with every field *)
(* of the form, the note included; an addDoc may be rejected by the store  *)

FormSessions == {"b1"}

\* what a patient types into the Additional Notes textarea
NoteInputs == {<<>>, <<" ", "cough", " ">>}

FormSubmit ==
    /\ Len(appts) < MaxForm
    /\ \E s \in FormSessions, d \in DoctorOptions, date \in DateInputs,
          t \in TimeOptions, note \in NoteInputs, c \in BOOLEAN :
           HandleSubmit(s, d, date, t, note, c)

FormCountNotified == \E s \in FormSessions : CountSnapshot(s)

NextForm ==
    \/ FormSubmit
    \/ FormCountNotified

SpecForm == Init /\ [][NextForm]_vars

-----------------------------------------------------------------------------
(* The two-doctor specification: one session of doctor d1, one of doctor d2 *)
(* and one of patient p1 around the records p1 books with either doctor.    *)
(* Every write commits.                                                      *)

PairDoctorSessions == {"dA", "dC"}
PairPatientSessions == {"qA"}

\* what the doctor of this specification types into the Medicine input
PairMedicines == {<<"Amoxicillin">>}

PairBook ==
    /\ Len(appts) < MaxPair
    /\ \E d \in Doctors : HandleSubmit("b1", d, today, "09:00", <<>>, TRUE)

NextPair ==
    \/ PairBook
    \/ \E s \in PairDoctorSessions : DoctorSnapshot(s)
    \/ \E s \in PairPatientSessions : PatientSnapshot(s)
    \/ \E s \in PairDoctorSessions, i \in Ids : Accept(s, i, TRUE)
    \/ \E s \in PairDoctorSessions, i \in Ids : Decline(s, i, TRUE)
    \/ \E s \in PairDoctorSessions, i \in Ids : Start(s, i, TRUE)
    \/ \E s \in PairDoctorSessions, i \in Ids : AddPrescription(s, i)
    \/ \E s \in PairDoctorSessions, i \in Ids, m \in PairMedicines : EditMedicine(s, i, m)
    \/ \E s \in PairDoctorSessions, i \in Ids : CancelForm(s, i)
    \/ \E s \in PairDoctorSessions, i \in Ids : HandlePrescriptionSubmit(s, i, TRUE)
    \/ \E s \in PairDoctorSessions : ErrorTimeout(s)
    \/ \E s \in PairPatientSessions, i \in Ids, n \in Stars :
           UpdateFeedback(s, i, "rating", n)
    \/ \E s \in PairPatientSessions, i \in Ids : HandleFeedbackSubmit(s, i, TRUE)

SpecPair == Init /\ [][NextPair]_vars

-----------------------------------------------------------------------------
(* The prescription specification: two sessions of doctor d1, each typing   *)
(* one of two medicines, around the record p1 books with d1.  Every write   *)
(* commits.                                                                 *)

RxDoctorSessions == {"dA", "dB"}

\* what the doctor of this specification types into the Medicine input
RxMedicines == {<<"Amoxicillin">>, <<"Ibuprofen">>}

RxBook ==
    /\ Len(appts) < MaxRx
    /\ HandleSubmit("b1", "d1", today, "09:00", <<>>, TRUE)

NextRx ==
    \/ RxBook
    \/ \E s \in RxDoctorSessions : DoctorSnapshot(s)
    \/ \E s \in RxDoctorSessions, i \in Ids : Accept(s, i, TRUE)
    \/ \E s \in RxDoctorSessions, i \in Ids : Decline(s, i, TRUE)
    \/ \E s \in RxDoctorSessions, i \in Ids : Start(s, i, TRUE)
    \/ \E s \in RxDoctorSessions, i \in Ids : AddPrescription(s, i)
    \/ \E s \in RxDoctorSessions, i \in Ids, m \in RxMedicines : EditMedicine(s, i, m)
    \/ \E s \in RxDoctorSessions, i \in Ids : CancelForm(s, i)
    \/ \E s \in RxDoctorSessions, i \in Ids : HandlePrescriptionSubmit(s, i, TRUE)
    \/ \E s \in RxDoctorSessions : ErrorTimeout(s)

SpecRx == Init /\ [][NextRx]_vars

-----------------------------------------------------------------------------
(* The two-patient specification: a dashboard of p1 and one of p2 around    *)
(* the records the two book with d1 and d1 takes to completion.  Every      *)
(* write commits.                                                           *)

OwnerDoctorSessions == {"dA"}
OwnerPatientSessions == {"qA", "qB"}
OwnerBookSessions == {"b1", "b3"}

OwnerBook ==
    /\ Len(appts) < MaxOwner
    /\ \E s \in OwnerBookSessions : HandleSubmit(s, "d1", today, "09:00", <<>>, TRUE)

NextOwner ==
    \/ OwnerBook
    \/ \E s \in OwnerDoctorSessions : DoctorSnapshot(s)
    \/ \E s \in OwnerPatientSessions : PatientSnapshot(s)
    \/ \E s \in OwnerDoctorSessions, i \in Ids : Accept(s, i, TRUE)
    \/ \E s \in OwnerDoctorSessions, i \in Ids : Start(s, i, TRUE)
    \/ \E s \in OwnerDoctorSessions, i \in Ids : AddPrescription(s, i)
    \/ \E s \in OwnerDoctorSessions, i \in Ids, m \in PairMedicines : EditMedicine(s, i, m)
    \/ \E s \in OwnerDoctorSessions, i \in Ids : HandlePrescriptionSubmit(s, i, TRUE)
    \/ \E s \in OwnerDoctorSessions : ErrorTimeout(s)
    \/ \E s \in OwnerPatientSessions, i \in Ids, n \in Stars :
           UpdateFeedback(s, i, "rating", n)
    \/ \E s \in OwnerPatientSessions, i \in Ids : HandleFeedbackSubmit(s, i, TRUE)

SpecOwner == Init /\ [][NextOwner]_vars

-----------------------------------------------------------------------------
(* The rating specification: the dashboard of doctor d1 over any store of   *)
(* completed records of d1, each with or without a feedback of 1 to 5 stars *)

\* the values the feedback field of a stored record can take
FeedbackValues == {Undefined} \cup {[rating |-> n, comment |-> <<>>] : n \in Stars}

\* a completed record of p1 with d1 holding that feedback
RatedRecord(feedback) ==
    [patientId |-> "p1", doctorId |-> "d1", date |-> today, time |-> "09:00",
     note |-> <<>>, status |-> "completed",
     prescription |-> [medicine |-> <<"Amoxicillin">>], feedback |-> feedback]

\* the stores of at most MaxRated such records
RatedStores ==
    UNION {[1..n -> {RatedRecord(f) : f \in FeedbackValues}] : n \in 0..MaxRated}

InitRated ==
    /\ appts \in RatedStores
    /\ todayAppointments = [s \in BookSessions |-> 0]
    /\ bookError = [s \in BookSessions |-> ""]
    /\ appointments = [s \in DoctorSessions \cup PatientSessions |-> <<>>]
    /\ selectedAppointment = [s \in DoctorSessions |-> Null]
    /\ prescriptionData = [s \in DoctorSessions |-> EmptyPrescription]
    /\ error = [s \in DoctorSessions |-> ""]
    /\ feedbackData = [s \in PatientSessions |-> <<>>]
    /\ InitAuth

RatedDoctorNotified == DoctorSnapshot("dA")

NextRated == RatedDoctorNotified

SpecRated == InitRated /\ [][NextRated]_vars

-----------------------------------------------------------------------------
(* The list specification: the records p1 books with d1 on two days and at  *)
(* two slots, listed by the dashboard of d1 and by two dashboards of p1,    *)
(* one on each engine.  Every write commits.                                *)

SortDoctorSessions == {"dA"}
SortPatientSessions == {"qA", "qS"}

\* the dates and slots chosen on the booking page
SortDates == {today, today + 1}
SortTimes == {"09:00", "14:00"}

SortBook ==
    /\ Len(appts) < MaxSort
    /\ \E date \in SortDates, t \in SortTimes :
           HandleSubmit("b1", "d1", date, t, <<>>, TRUE)

NextSort ==
    \/ SortBook
    \/ \E s \in SortDoctorSessions : DoctorSnapshot(s)
    \/ \E s \in SortPatientSessions : PatientSnapshot(s)
    \/ \E s \in SortDoctorSessions, i \in Ids : Accept(s, i, TRUE)
    \/ \E s \in SortDoctorSessions, i \in Ids : Decline(s, i, TRUE)

SpecSort == Init /\ [][NextSort]_vars

-----------------------------------------------------------------------------
(* The live specification: a dashboard of d1, a dashboard of p1 and a       *)
(* booking page of p1, whose listeners are each served sooner or later:     *)
(* onSnapshot keeps calling back for as long as the component is mounted    *)

LiveDoctorSessions == {"dA"}
LivePatientSessions == {"qA"}
LiveBookSessions == {"b1"}

LiveBook ==
    /\ Len(appts) < MaxLive
    /\ \E s \in LiveBookSessions, date \in SortDates :
           HandleSubmit(s, "d1", date, "09:00", <<>>, TRUE)

NextLive ==
    \/ LiveBook
    \/ \E s \in LiveDoctorSessions, i \in Ids : Accept(s, i, TRUE)
    \/ \E s \in LiveDoctorSessions, i \in Ids : Decline(s, i, TRUE)
    \/ \E s \in LiveDoctorSessions, i \in Ids : Start(s, i, TRUE)
    \/ \E s \in LiveDoctorSessions : DoctorSnapshot(s)
    \/ \E s \in LivePatientSessions : PatientSnapshot(s)
    \/ \E s \in LiveBookSessions : CountSnapshot(s)

SpecLive ==
    /\ Init
    /\ [][NextLive]_vars
    /\ \A s \in LiveDoctorSessions : WF_vars(DoctorSnapshot(s))
    /\ \A s \in LivePatientSessions : WF_vars(PatientSnapshot(s))
    /\ \A s \in LiveBookSessions : WF_vars(CountSnapshot(s))

-----------------------------------------------------------------------------
(* The draft specification: one session of doctor d1 around two records p1  *)
(* books with d1; the doctor means a different medicine for each of them.   *)
(* Every write commits.                                                     *)

DraftDoctorSessions == {"dA"}

\* what the doctor types into the Medicine input while the form of the
\* appointment with that id is the one on screen
MedicineFor == <<<<"Amoxicillin">>, <<"Ibuprofen">>>>

DraftBook ==
    /\ Len(appts) < MaxDraft
    /\ HandleSubmit("b1", "d1", today, "09:00", <<>>, TRUE)

NextDraft ==
    \/ DraftBook
    \/ \E s \in DraftDoctorSessions : DoctorSnapshot(s)
    \/ \E s \in DraftDoctorSessions, i \in Ids : Accept(s, i, TRUE)
    \/ \E s \in DraftDoctorSessions, i \in Ids : Start(s, i, TRUE)
    \/ \E s \in DraftDoctorSessions, i \in Ids : AddPrescription(s, i)
    \/ \E s \in DraftDoctorSessions, i \in Ids : EditMedicine(s, i, MedicineFor[i])
    \/ \E s \in DraftDoctorSessions, i \in Ids : CancelForm(s, i)
    \/ \E s \in DraftDoctorSessions, i \in Ids : HandlePrescriptionSubmit(s, i, TRUE)
    \/ \E s \in DraftDoctorSessions : ErrorTimeout(s)

SpecDraft == Init /\ [][NextDraft]_vars

-----------------------------------------------------------------------------
(* The sign-in specification: one browser, its AuthProvider, Firebase Auth  *)
(* and the users collection; any request may be rejected by the service     *)

NextAuth ==
    \/ \E email \in EmailInputs, role \in Roles : Register(email, role)
    \/ \E created \in BOOLEAN : RegisterCreated(created)
    \/ \E committed \in BOOLEAN : RegisterWritten(committed)
    \/ \E email \in EmailInputs, accepted \in BOOLEAN : Login(email, accepted)
    \/ \E accepted \in BOOLEAN : Logout(accepted)
    \/ LogoutReturns
    \/ AuthStateChanged
    \/ \E user \in EmailInputs, answered \in BOOLEAN : FetchAnswered(user, answered)
    \/ Reload

SpecAuth == Init /\ [][NextAuth]_vars

-----------------------------------------------------------------------------
(* Properties *)

\* the edges of the status flow
Edges ==
    {<<"pending", "confirmed">>, <<"pending", "cancelled">>,
     <<"confirmed", "in-progress">>, <<"in-progress", "completed">>}

\* the session's list is the current result of its query
DoctorSynced(s) == appointments[s] = SortOn(Engine(s), QueryDocs("doctorId", uid(s)))
PatientSynced(s) == appointments[s] = SortOn(Engine(s), QueryDocs("patientId", uid(s)))

\* every booking page holds the current size of its query
CountsSynced == \A s \in BookSessions : todayAppointments[s] = TodayCount(uid(s))

\* no (patient, date) has more than two records
CapHolds ==
    \A p \in Patients, d \in DateInputs \ {NoDate} : CountFor(p, d) <= 2

\* C1: in every step, the stored status of every appointment either stays as
\* it is or moves along an edge of the status flow
C1_StatusFollowsEdges ==
    [][\A i \in Ids :
          \/ appts'[i].status = appts[i].status
          \/ <<appts[i].status, appts'[i].status>> \in Edges]_vars

\* C2: in every step, an appointment whose stored status is cancelled or
\* completed keeps that status
C2_TerminalIsFinal ==
    [][\A i \in Ids :
          appts[i].status \in {"cancelled", "completed"}
              => appts'[i].status = appts[i].status]_vars

\* C3: in every state, an appointment has a prescription if and only if its
\* stored status is completed
C3_PrescriptionIffCompleted ==
    \A i \in Ids :
        (appts[i].prescription # Undefined) <=> (appts[i].status = "completed")

\* C4: whenever the owning patient is offered the feedback form of a completed
\* appointment that has no stored feedback, the first submission - choosing
\* star n, typing comment c, pressing Submit - is accepted and stores {n, c}
C4_FirstFeedbackStored ==
    \A s \in PatientSessions, i \in Ids, n \in Stars, c \in Comments :
        ( /\ FeedbackFormShown(s, i)
          /\ uid(s) = appts[i].patientId
          /\ appts[i].status = "completed"
          /\ appts[i].feedback = Undefined )
        => LET rated == DraftsAfter(feedbackData[s], i, "rating", n)
               typed == DraftsAfter(rated, i, "comment", c)
           IN  /\ ~ReturnsEarly(typed, i)
               /\ typed[i] = [rating |-> n, comment |-> c]

\* C5: in every state, an appointment that has feedback has status completed,
\* and Submit Feedback is offered to no session for an appointment whose
\* stored status is not completed (the only refusal the component has is not
\* to render the form: it has no error banner)
C5_FeedbackOnlyOnCompleted ==
    \A i \in Ids :
        /\ appts[i].feedback # Undefined => appts[i].status = "completed"
        /\ \A s \in PatientSessions :
               FeedbackFormShown(s, i) => appts[i].status = "completed"

\* C6: whenever the owning patient is offered the feedback form of a completed
\* appointment that has no stored feedback, choosing any star n of 1..5 and
\* pressing Submit is accepted with rating n as the value written
C6_RatingAccepted ==
    \A s \in PatientSessions, i \in Ids, n \in Stars :
        ( /\ FeedbackFormShown(s, i)
          /\ uid(s) = appts[i].patientId
          /\ appts[i].status = "completed"
          /\ appts[i].feedback = Undefined )
        => LET rated == DraftsAfter(feedbackData[s], i, "rating", n)
           IN  ~ReturnsEarly(rated, i) /\ rated[i].rating = n

\* C7: a booking made while every booking page holds the current count (no
\* request overlaps another) never takes the store from at most two records
\* per (patient, date) to more than two
C7_SequentialBookingKeepsCap ==
    [][(CountsSynced /\ CapHolds /\ Len(appts') = Len(appts) + 1) => CapHolds']_vars

\* C8: a valid booking for a (patient, date) that holds fewer than two records
\* is admitted, whatever the patient holds on other dates and whatever other
\* patients hold
C8_CapScopedToPatientAndDate ==
    [][\A s \in BookSessions, date \in {today, today + 1} :
          ( /\ HandleSubmit(s, "d1", date, "09:00", <<>>, TRUE)
            /\ CountFor(uid(s), date) < 2 )
          => Len(appts') = Len(appts) + 1]_vars

C10_ShownToPatientOrDoctor ==
    \A i \in Ids :
        /\ \A s \in FlowPatientSessions :
               PatientSynced(s) =>
                   (PrescriptionShown(s, i) <=>
                        appts[i].status = "completed" /\ uid(s) = appts[i].patientId)
        /\ \A s \in FlowDoctorSessions :
               DoctorSynced(s) =>
                   (PrescriptionShown(s, i) <=>
                        appts[i].status = "completed" /\ uid(s) = appts[i].doctorId)

\* C10 as amended: a prescription is shown only in a patient dashboard of the
\* appointment's patient and only for an appointment that holds a
\* prescription; a patient dashboard that holds the current documents shows
\* it exactly when the stored status is completed
C10_ShownToPatientOnceCompleted ==
    \A i \in Ids, s \in FlowPatientSessions \cup FlowDoctorSessions :
        /\ PrescriptionShown(s, i) =>
               /\ s \in PatientSessions
               /\ uid(s) = appts[i].patientId
               /\ appts[i].prescription # Undefined
        /\ (s \in PatientSessions /\ PatientSynced(s)) =>
               (PrescriptionShown(s, i) <=>
                    appts[i].status = "completed" /\ uid(s) = appts[i].patientId)

\* C10 witness: the patient's dashboard shows the prescription of a completed
\* appointment
C10_PrescriptionOnScreen ==
    \E i \in Ids : PrescriptionShown("qA", i) /\ appts[i].status = "completed"


\* C11: a step that changes an appointment's status or prescription is a
\* status button or a Complete Appointment press of a session of the doctor
\* whose uid is the record's doctorId; no booking, no feedback operation and
\* no session of another doctor changes either field
C11_OnlyAssignedDoctorWrites ==
    [][\A i \in Ids :
          (\/ appts'[i].status # appts[i].status
           \/ appts'[i].prescription # appts[i].prescription)
          => \E s \in DoctorSessions :
                /\ uid(s) = appts[i].doctorId
                /\ \/ Accept(s, i, TRUE)
                   \/ Decline(s, i, TRUE)
                   \/ Start(s, i, TRUE)
                   \/ HandlePrescriptionSubmit(s, i, TRUE)]_vars

\* C11 witness: the store holds a record of d1 and a record of d2, each moved
\* on by its doctor while the patient's dashboard lists both
C11_BothDoctorsActed ==
    \E i, j \in Ids :
        /\ appts[i].doctorId = "d1" /\ appts[i].status = "completed"
        /\ appts[j].doctorId = "d2" /\ appts[j].status = "cancelled"
        /\ Listed("qA", i) /\ Listed("qA", j)


\* C12: a Complete Appointment press whose medicine is empty or only white
\* space shows 'Please enter medicine name' and writes nothing; a press with
\* any other medicine on a record stored as in-progress sets, in one write,
\* status to completed and prescription to the draft as typed, and changes
\* nothing else of the store
C12_BlankMedicineRejected ==
    [][\A s \in FlowDoctorSessions, i \in Ids :
          HandlePrescriptionSubmit(s, i, TRUE)
          => IF Trim(prescriptionData[s].medicine) = <<>>
             THEN appts' = appts /\ error'[s] = ErrMedicine
             ELSE appts[i].status = "in-progress"
                  => appts' = [appts EXCEPT ![i].status = "completed",
                                            ![i].prescription = prescriptionData[s]]]_vars

\* C12 witness: session dA was refused a medicine of white space only, and
\* the record was completed with the medicine typed in session dB
C12_BlankRefusedAndCompleted ==
    \E i \in Ids :
        /\ error["dA"] = ErrMedicine
        /\ prescriptionData["dA"].medicine = <<" ">>
        /\ appts[i].status = "completed"
        /\ appts[i].prescription.medicine = <<"Amoxicillin">>


\* C13 as stated: a submit either is rejected, with an error banner and the
\* store as it was, or appends exactly one record that is pending, belongs to
\* the caller and carries the doctor, date, time and note of the request,
\* leaving every earlier record as it was
C13_AddsRequestedRecord ==
    [][\A s \in FormSessions, d \in DoctorOptions, date \in DateInputs,
          t \in TimeOptions, note \in NoteInputs, c \in BOOLEAN :
          HandleSubmit(s, d, date, t, note, c)
          => \/ appts' = appts /\ bookError'[s] # ""
             \/ /\ bookError'[s] = ""
                /\ appts' = Append(appts,
                       [patientId |-> uid(s), doctorId |-> d, date |-> date,
                        time |-> t, note |-> note, status |-> "pending",
                        prescription |-> Undefined, feedback |-> Undefined])]_vars

\* C13 amended: the same, with the note stored without its leading and
\* trailing white space
C13_AddsRecordWithTrimmedNote ==
    [][\A s \in FormSessions, d \in DoctorOptions, date \in DateInputs,
          t \in TimeOptions, note \in NoteInputs, c \in BOOLEAN :
          HandleSubmit(s, d, date, t, note, c)
          => \/ appts' = appts /\ bookError'[s] # ""
             \/ /\ bookError'[s] = ""
                /\ appts' = Append(appts,
                       [patientId |-> uid(s), doctorId |-> d, date |-> date,
                        time |-> t, note |-> Trim(note), status |-> "pending",
                        prescription |-> Undefined, feedback |-> Undefined])]_vars

\* C13 witness: a booking typed with white space around the note was stored
\* after an earlier record, and a later submit was rejected
C13_NoteStoredAfterEarlierRecord ==
    /\ Len(appts) = 2
    /\ appts[1].note = <<>>
    /\ appts[2].note = <<"cough">>
    /\ bookError["b1"] = ErrPastDate


C15_NotBeforeCallersDay ==
    \A i \in Ids, callersDay \in LocalDates : appts[i].date >= callersDay


\* C16: a feedback submission that does not take effect is reported: whenever
\* a patient session is offered the feedback form and choosing star n leaves a
\* draft that handleFeedbackSubmit drops without a write, the dashboard shows
\* an error
C16_DroppedFeedbackReported ==
    \A s \in PatientSessions, i \in Ids, n \in Stars :
        ( /\ FeedbackFormShown(s, i)
          /\ ReturnsEarly(DraftsAfter(feedbackData[s], i, "rating", n), i) )
        => PatientError(s) # ""


\* C17: once an appointment has a prescription, no step changes or removes it
C17_PrescriptionNeverChanges ==
    [][\A i \in Ids :
          appts[i].prescription # Undefined
          => appts'[i].prescription = appts[i].prescription]_vars


\* C19: no step removes a record or changes the patientId, doctorId, date,
\* time or note of a record; Accept, Decline and Start change nothing of the
\* store but the status of their record, Complete Appointment nothing but the
\* status and prescription of its record, and Submit Feedback nothing but the
\* feedback of its record, as does the write it issues for any draft
C19_WritesKeepTheirFrame ==
    [][/\ Len(appts') >= Len(appts)
       /\ \A i \in Ids :
              /\ appts'[i].patientId = appts[i].patientId
              /\ appts'[i].doctorId = appts[i].doctorId
              /\ appts'[i].date = appts[i].date
              /\ appts'[i].time = appts[i].time
              /\ appts'[i].note = appts[i].note
       /\ \A s \in DoctorSessions, i \in Ids :
              /\ (Accept(s, i, TRUE) \/ Decline(s, i, TRUE) \/ Start(s, i, TRUE))
                 => appts' = [appts EXCEPT ![i].status = appts'[i].status]
              /\ HandlePrescriptionSubmit(s, i, TRUE)
                 => appts' = [appts EXCEPT ![i].status = appts'[i].status,
                                           ![i].prescription = appts'[i].prescription]
       /\ \A s \in PatientSessions, i \in Ids :
              /\ HandleFeedbackSubmit(s, i, TRUE)
                 => appts' = [appts EXCEPT ![i].feedback = appts'[i].feedback]
              /\ \A n \in Stars, c \in Comments :
                     FeedbackFormShown(s, i)
                     => UpdateDoc(i, [feedback |-> [rating |-> n, comment |-> c]])
                        = [appts EXCEPT ![i].feedback = [rating |-> n, comment |-> c]]
      ]_vars

\* C19 witness: of two records, the first went through every write of its
\* doctor and is offered for feedback while the second is still as booked
C19_OneRecordWrittenOneUntouched ==
    /\ Len(appts) = 2
    /\ appts[1].status = "completed"
    /\ appts[1].prescription # Undefined
    /\ FeedbackFormShown("qA", 1)
    /\ appts[2] = NewAppointment("b1", appts[2].doctorId, today, "09:00", <<>>)


\* C20: an Accept or Decline pressed in a session that still shows the
\* appointment as pending, after another session's Accept or Decline has
\* already been stored, leaves the record as the first press wrote it
C20_FirstDecisionStands ==
    [][\A s \in FlowDoctorSessions, i \in Ids :
          ( /\ IsPending(s, i)
            /\ appts[i].status \in {"confirmed", "cancelled"}
            /\ (Accept(s, i, TRUE) \/ Decline(s, i, TRUE)) )
          => appts'[i] = appts[i]]_vars


\* the number of entries of a session's list that have one of the statuses
CountWithStatus(s, statuses) ==
    Cardinality({k \in DOMAIN appointments[s] : appointments[s][k].status \in statuses})

\* C21: on every doctor dashboard the Pending card counts the listed records
\* that are pending, the Active card those confirmed or in-progress, the
\* Completed card those completed, and the three with the cancelled records
\* add up to the length of the list
C21_CardsPartitionTheList ==
    \A s \in PairDoctorSessions :
        /\ Len(pendingAppointments(s)) = CountWithStatus(s, {"pending"})
        /\ Len(activeAppointments(s)) = CountWithStatus(s, {"confirmed", "in-progress"})
        /\ Len(completedAppointments(s)) = CountWithStatus(s, {"completed"})
        /\ Len(pendingAppointments(s)) + Len(activeAppointments(s))
              + Len(completedAppointments(s)) + CountWithStatus(s, {"cancelled"})
           = Len(appointments[s])

\* C21 witness: the dashboard of d1 lists a cancelled record, counted by no
\* card, next to a record that is not cancelled
C21_CancelledBesideCounted ==
    /\ Len(appointments["dA"]) = 2
    /\ CountWithStatus("dA", {"cancelled"}) = 1
    /\ Len(pendingAppointments("dA")) + Len(activeAppointments("dA"))
          + Len(completedAppointments("dA")) = 1

\* C23: on every patient dashboard the Completed Visits card counts the listed
\* records whose status is completed, so that a cancelled record is counted
\* by none of the three cards
C23_CompletedVisitsAreCompleted ==
    \A s \in PairPatientSessions :
        /\ UpcomingCard(s) = CountWithStatus(s, {"pending", "confirmed", "in-progress"})
        /\ CompletedVisitsCard(s) = CountWithStatus(s, {"completed"})


\* the listed records of a session that have feedback, and their ratings added
RatedEntries(s) == {k \in DOMAIN appointments[s] : appointments[s][k].feedback # Undefined}

RECURSIVE RatingTotal(_, _)
RatingTotal(s, entries) ==
    IF entries = {} THEN 0
    ELSE LET k == CHOOSE e \in entries : TRUE
         IN  appointments[s][k].feedback.rating + RatingTotal(s, entries \ {k})

\* C22: the Average Rating of a doctor dashboard is 0 when no listed record
\* has feedback; otherwise it is the sum of the ratings of the listed records
\* that have feedback divided by their number, and lies between 1 and 5
C22_AverageIsMeanOfRatings ==
    LET avg == averageRating("dA")
        n == Cardinality(RatedEntries("dA"))
    IN  IF n = 0
        THEN avg.num = 0
        ELSE /\ avg.num * n = RatingTotal("dA", RatedEntries("dA")) * avg.den
             /\ avg.den <= avg.num
             /\ avg.num <= 5 * avg.den

\* C22 witness: the list holds ratings 5 and 3 and a record without feedback,
\* and the average is 4
C22_FiveAndThreeGiveFour ==
    /\ Len(appointments["dA"]) = 3
    /\ {appointments["dA"][k].feedback : k \in 1..3}
          = {Undefined, [rating |-> 5, comment |-> <<>>], [rating |-> 3, comment |-> <<>>]}
    /\ averageRating("dA") = [num |-> 4, den |-> 1]


\* a list runs from the latest (date, time) to the earliest
Descending(list) ==
    \A k \in 1..(Len(list) - 1) :
        \/ list[k].date > list[k + 1].date
        \/ /\ list[k].date = list[k + 1].date
           /\ Minutes(list[k].time) >= Minutes(list[k + 1].time)

\* C24: the list of every dashboard, and each of its filtered sub-lists, is
\* ordered by (date, time) descending
C24_ListsAreDescending ==
    /\ \A s \in SortDoctorSessions :
           /\ Descending(appointments[s])
           /\ Descending(pendingAppointments(s))
           /\ Descending(activeAppointments(s))
    /\ \A s \in SortPatientSessions :
           /\ Descending(appointments[s])
           /\ Descending(upcomingAppointments(s))
           /\ Descending(pastAppointments(s))


\* every mounted component of the live specification shows what its query
\* holds in the store
LiveSynced ==
    /\ \A s \in LiveDoctorSessions : DoctorSynced(s)
    /\ \A s \in LivePatientSessions : PatientSynced(s)
    /\ \A s \in LiveBookSessions : todayAppointments[s] = TodayCount(uid(s))

\* C25: if from some point on no step changes the store, then from some point
\* on every dashboard list equals the sorted documents of its query and the
\* booking page's todayAppointments equals the store's count for (p1, today)
C25_ViewsConverge ==
    <>[][appts' = appts]_vars => <>[]LiveSynced

\* C25 witness: after a booking for today, a booking for tomorrow and a
\* decline, every listener has caught up with the store
C25_CaughtUpAfterWrites ==
    /\ Len(appts) = 2
    /\ \E i \in Ids : appts[i].status = "cancelled"
    /\ TodayCount("p1") = 1
    /\ LiveSynced


Slots == {timeSlots[k] : k \in DOMAIN timeSlots}

C30_StatusEnumerated ==
    [][\A i \in 1..Len(appts') :
          /\ appts'[i].status \in Statuses
          /\ i > Len(appts) => appts'[i].status = "pending"]_vars

\* C30 witness: the store holds a record in progress, a cancelled record and
\* no other
C30_InProgressAndCancelled ==
    /\ Len(appts) = 2
    /\ {appts[i].status : i \in Ids} = {"in-progress", "cancelled"}


\* C33: a call of updateFeedback on field "rating" or "comment" leaves that
\* field of the appointment's draft equal to the value passed, the draft's
\* other field as it was, and every other appointment's draft unchanged
C33_UpdateSetsTheField ==
    [][\A s \in PatientSessions, i \in Ids :
          /\ \A n \in Stars :
                UpdateFeedback(s, i, "rating", n)
                => /\ feedbackData'[s][i].rating = n
                   /\ feedbackData'[s][i].comment = PrevComment(feedbackData[s], i)
                   /\ \A j \in DOMAIN feedbackData[s] \ {i} :
                         feedbackData'[s][j] = feedbackData[s][j]
          /\ \A c \in Comments :
                UpdateFeedback(s, i, "comment", c)
                => /\ feedbackData'[s][i].comment = c
                   /\ feedbackData'[s][i].rating = PrevRating(feedbackData[s], i)
                   /\ \A j \in DOMAIN feedbackData[s] \ {i} :
                         feedbackData'[s][j] = feedbackData[s][j]]_vars


\* C34: every stored prescription holds the medicine typed while the form of
\* its own appointment was the one on screen
C34_DraftBelongsToItsForm ==
    \A i \in Ids :
        appts[i].prescription # Undefined
        => appts[i].prescription.medicine = MedicineFor[i]


\* the last part of the email is the domain @meditrack.local
EndsInMeditrackLocal(email) ==
    email # <<>> /\ email[Len(email)] = "@meditrack.local"

\* C31: a call of register with an email that does not end in
\* @meditrack.local throws the validation error and leaves the accounts, the
\* users collection, the signed-in user, currentUser and userProfile as they
\* were; no account and no profile document ever has such an email
C31_BadEmailCreatesNothing ==
    [][/\ \A e \in accounts' : EndsInMeditrackLocal(e)
       /\ \A e \in EmailInputs : users'[e] # NoDoc => EndsInMeditrackLocal(e)
       /\ \A email \in EmailInputs, role \in Roles :
             (~EndsInMeditrackLocal(email) /\ Register(email, role))
             => /\ registerCall'.pc = "thrown"
                /\ registerCall'.error = ErrEmail
                /\ UNCHANGED <<accounts, users, authUser, authEvents,
                               currentUser, userProfile>>]_vars

\* C31 witness: a browser with a signed-in user and its profile has had a
\* registration refused for the email
C31_RefusedWhileSignedIn ==
    /\ registerCall.pc = "thrown"
    /\ registerCall.error = ErrEmail
    /\ currentUser # NoUser
    /\ userProfile # NoProfile


\* the role in the profile document of the user, if there is one
StoredRole(user) ==
    IF user # NoUser /\ users[user] # NoDoc THEN users[user].role ELSE NoRole

\* what a route element can be given as requiredRole
RequiredRoles == Roles \cup {NoRole}

\* C32: ProtectedRoute puts its children on screen only for a signed-in user
\* and, when a role is required, only for a user whose role is that role, so
\* that a user whose profile document says patient is never shown a page that
\* requires doctor, nor a doctor a page that requires patient; without a
\* currentUser the route redirects to /login
C32_PagesOfOwnRoleOnly ==
    \A r \in RequiredRoles :
        /\ (~loading /\ currentUser = NoUser) => Rendered(r) = "/login"
        /\ Rendered(r) = "children"
           => /\ currentUser # NoUser
              /\ r # NoRole => ProfileRole(userProfile) = r
              /\ (r # NoRole /\ StoredRole(currentUser) # NoRole)
                 => StoredRole(currentUser) = r

\* nothing the provider awaits is outstanding
Quiescent ==
    /\ authEvents = <<>>
    /\ fetches = {}
    /\ registerCall.pc \notin {"creating", "writing"}
    /\ logoutCall = "idle"

\* C35: whenever no callback, fetch, register or logout is outstanding,
\* userProfile is null or the profile of the current user
C35_ProfileIsCurrentUsers ==
    Quiescent
    => (userProfile # NoProfile
        => currentUser # NoUser /\ userProfile.uid = currentUser)

\* C36: a signed-in user whose profile document says doctor is never
\* redirected to /patient-dashboard, whatever role the route requires
C36_DoctorKeptOffPatientDashboard ==
    \A r \in RequiredRoles :
        StoredRole(currentUser) = "doctor" => Rendered(r) # "/patient-dashboard"

\* C37: once register has returned or thrown, the email has an account if
\* and only if it has a profile document
C37_AccountIffProfile ==
    registerCall.pc \in {"returned", "thrown"}
    => (registerCall.email \in accounts <=> users[registerCall.email] # NoDoc)

====
